---- MODULE Spec2Model ----
(***************************************************************************)
(* videojitter: the recording analysis pipeline of analyze-recording.py.   *)
(*                                                                         *)
(* One run of analyze_recording() is a state machine whose program counter *)
(* walks the stages of the script.  Python floats are modelled as exact    *)
(* rationals <<numerator, denominator>>; sample indexes are the 0-based    *)
(* numpy offsets, signals are TLA+ sequences (position i+1 holds offset i).*)
(* The polyphase filters of scipy.signal.resample_poly are not computed:   *)
(* the output has the length scipy gives it and any sample values.         *)
(***************************************************************************)
EXTENDS Integers, Sequences, FiniteSets

(* ------------------------------ bounds --------------------------------- *)

\* boundaries_signal_frames ranges over 1..MaxFrames
MaxFrames == 3
\* the recording holds 1..MaxSamples samples
MaxSamples == 3
\* an upsampled slope longer than this is not explored
MaxUpsampled == 4
\* length of the slope signals find_edges is explored on directly
MaxSlope == 5

(* ---------------------------- rationals -------------------------------- *)

RECURSIVE GCD(_, _)
GCD(a, b) == IF b = 0 THEN a ELSE GCD(b, a % b)

Abs(n) == IF n < 0 THEN -n ELSE n

\* n/d in lowest terms, d > 0
Rat(n, d) ==
    LET g == GCD(Abs(n), Abs(d))
        s == IF d < 0 THEN -1 ELSE 1
    IN  <<(s * n) \div g, (s * d) \div g>>

FromInt(n) == <<n, 1>>
RMul(a, b) == Rat(a[1] * b[1], a[2] * b[2])
RDiv(a, b) == Rat(a[1] * b[2], a[2] * b[1])
RLeq(a, b) == a[1] * b[2] <= b[1] * a[2]
RLess(a, b) == a[1] * b[2] < b[1] * a[2]
\* np.floor, np.ceil and int() on a non-negative value
RFloor(a) == a[1] \div a[2]
RCeil(a) == -((-a[1]) \div a[2])

\* float division by zero yields inf (a warning, no exception)
Infinity == <<1, 0>>

(* ----------------------------- helpers --------------------------------- *)

Range(s) == {s[i] : i \in DOMAIN s}
SeqsUpTo(S, lo, hi) == UNION {[1..n -> S] : n \in lo..hi}
Min(S) == CHOOSE m \in S : \A n \in S : m <= n
Max(S) == CHOOSE m \in S : \A n \in S : n <= m
Negated(x) == [i \in DOMAIN x |-> -x[i]]
\* python slicing x[from:to] with 0 <= from, clamped to the sequence
Slice(x, from, to) ==
    LET hi == IF to > Len(x) THEN Len(x) ELSE to
    IN  IF from >= hi THEN <<>> ELSE SubSeq(x, from + 1, hi)

(* ------------------- scipy.signal.find_peaks --------------------------- *)

\* _local_maxima_1d: the midpoint of every plateau that is strictly higher
\* than both neighbours; the first and the last sample are never peaks.
LocalMaxima(x) ==
    LET n == Len(x)
        plateau(l, r) ==
            /\ l <= r
            /\ \A k \in l..r : x[k + 1] = x[l + 1]
            /\ x[l] < x[l + 1]
            /\ x[r + 2] < x[r + 1]
    IN  {(l + r) \div 2 : <<l, r>> \in
            {q \in (1..(n - 2)) \X (1..(n - 2)) : plateau(q[1], q[2])}}

\* _select_by_peak_distance: peaks are visited from the highest to the
\* lowest; a visited peak that is still kept removes every peak closer than
\* `distance`.  The order among equal heights comes from an unstable argsort,
\* so every order is a possible outcome: the result is the set of the
\* possible kept sets.
RECURSIVE SelectByPeakDistance(_, _, _, _)
SelectByPeakDistance(x, pending, kept, distance) ==
    IF pending = {} THEN {kept}
    ELSE LET top == {p \in pending : \A q \in pending : x[q + 1] <= x[p + 1]}
         IN  UNION {SelectByPeakDistance(
                        x,
                        {q \in pending \ {p} : Abs(q - p) >= distance},
                        kept \cup {p},
                        distance) : p \in top}

\* _peak_prominences with wlen unset: the peak's height above the higher of
\* the two lowest points reached, on each side, before a higher sample.
PeakProminence(x, p) ==
    LET n == Len(x)
        left == {i \in 0..p : \A k \in i..p : x[k + 1] <= x[p + 1]}
        right == {i \in p..(n - 1) : \A k \in p..i : x[k + 1] <= x[p + 1]}
        left_min == Min({x[i + 1] : i \in left})
        right_min == Min({x[i + 1] : i \in right})
    IN  x[p + 1] - (IF left_min > right_min THEN left_min ELSE right_min)

\* the height condition of find_peaks: hmin <= x[peak]
HeightOk(x, p, height) == RLeq(height, FromInt(x[p + 1]))

\* the prominence condition of find_peaks: pmin <= prominence
ProminenceOk(x, p, prominence) == RLeq(prominence, FromInt(PeakProminence(x, p)))

\* find_peaks(x, height, distance, prominence)[0]: the conditions are applied
\* in scipy's order height, distance, prominence.  The possible results.
FindPeaks(x, height, distance, prominence) ==
    LET by_height == {p \in LocalMaxima(x) : HeightOk(x, p, height)}
    IN  {{p \in kept : ProminenceOk(x, p, prominence)} :
            kept \in SelectByPeakDistance(x, by_height, {}, distance)}

(* ----------------------------- find_edges ------------------------------ *)

RECURSIVE Ascending(_)
\* the offsets of a set as find_peaks returns them, in ascending order
Ascending(S) ==
    IF S = {} THEN <<>> ELSE <<Min(S)>> \o Ascending(S \ {Min(S)})

RECURSIVE SortedInsert(_, _)
SortedInsert(s, e) ==
    IF s = <<>> THEN <<e>>
    ELSE IF e.offset < Head(s).offset THEN <<e>> \o s
    ELSE <<Head(s)>> \o SortedInsert(Tail(s), e)

RECURSIVE SortIndexFrom(_, _)
SortIndexFrom(done, rest) ==
    IF rest = <<>> THEN done
    ELSE SortIndexFrom(SortedInsert(done, Head(rest)), Tail(rest))

\* the Series without the sort_index() of line 164
Unsorted(series) == series

\* Series.sort_index(): the rows in ascending order of offset
SortIndex(series) == SortIndexFrom(<<>>, series)

\* the Series find_edges builds: the falling edges (False), then the rising
\* edges (True), indexed by offset
EdgeSeries(falling_edge_indexes, rising_edge_indexes) ==
    LET f == Ascending(falling_edge_indexes)
        r == Ascending(rising_edge_indexes)
    IN  [i \in 1..Len(f) |-> [offset |-> f[i], frame |-> FALSE]]
        \o [i \in 1..Len(r) |-> [offset |-> r[i], frame |-> TRUE]]

\* find_edges(slope, **find_edge_params): the possible results
find_edges(slope, p) ==
    {SortIndex(EdgeSeries(f, r)) :
        f \in FindPeaks(Negated(slope), p.minimum_negative_height,
                        p.minimum_falling_edge_distance,
                        p.minimum_negative_prominence),
        r \in FindPeaks(slope, p.minimum_positive_height,
                        p.minimum_rising_edge_distance,
                        p.minimum_positive_prominence)}

(* ------------------------- collaborators ------------------------------- *)

\* np.tile([False, True], ceil(frame_count / 2))[0:frame_count]: frame i of
\* the boundaries reference (0-based) is True exactly when i is odd
BoundaryFrame(i) == i % 2 = 1

\* videojitter.util.generate_fake_samples: every frame is held for its
\* nominal duration at sample_rate; a True frame reads 1, a False frame -1
generate_fake_samples(frame_count, fps, sample_rate) ==
    LET per_second == sample_rate[1] * fps.den
        per_frame == sample_rate[2] * fps.num
        size == (frame_count * per_second) \div per_frame
    IN  [k \in 1..size |->
            IF BoundaryFrame(((k - 1) * per_frame) \div per_second) THEN 1 ELSE -1]

generate_boundaries_reference_samples(frame_count, fps, sample_rate) ==
    generate_fake_samples(frame_count, fps, sample_rate)

\* scipy.signal.correlate(in1, in2, mode="valid"): the full-overlap
\* positions only; scipy swaps the inputs when in2 is the longer one, and the
\* result then has Len(in2) - Len(in1) + 1 positions.
correlate_valid(in1, in2) ==
    LET n == Len(in1)
        l == Len(in2)
    IN  IF n >= l
        THEN [k \in 1..(n - l + 1) |->
                LET RECURSIVE dot(_)
                    dot(j) == IF j > l THEN 0
                              ELSE in1[k - 1 + j] * in2[j] + dot(j + 1)
                IN  dot(1)]
        ELSE [k \in 1..(l - n + 1) |->
                LET RECURSIVE dot(_)
                    dot(j) == IF j > n THEN 0
                              ELSE in1[j] * in2[j + (l - n) - (k - 1)] + dot(j + 1)
                IN  dot(1)]

\* the values a resampled sample takes in the model
SampleValues == {-1, 0, 1}

\* scipy.signal.resample_poly(x, up, down): x.copy() when up = down = 1;
\* otherwise ceil(Len(x) * up / down) filtered samples, of any value
resample_poly(x, up, down) ==
    LET g == GCD(up, down)
        u == up \div g
        d == down \div g
        n_out == -((-(Len(x) * u)) \div d)
    IN  IF u = 1 /\ d = 1 THEN {x} ELSE [1..n_out -> SampleValues]

(* ------------------------------ state ---------------------------------- *)

VARIABLES
    pc,                            \* the statement analyze_recording is at
    failure,                       \* what aborted the run, "" while none
    args,                          \* parse_arguments()
    spec,                          \* json.load(args.spec_file)
    recording_size,                \* recording_samples.size, -1 before the read
    recording_sample_rate,
    downsampling_ratio,
    recording_slope,
    boundaries_reference_samples,
    cross_correlation,
    boundary_candidate_indexes,
    test_signal_start_index,
    test_signal_end_index,
    upsampling_ratio,
    edges,                         \* rows [offset, frame], or [timestamp, frame]
    artifacts,                     \* the debug files written so far
    stderr,                        \* the diagnostics printed so far
    stdout                         \* the CSV rows written so far

\* the test harness, videojitter_test/__main__.py
VARIABLES
    harness_pc,                    \* the statement _run_tests is at
    parallelism,                   \* args.parallelism
    test_cases,                    \* how many test cases are selected
    throttle,                      \* throttle._value, the free slots
    waiters,                       \* throttle._waiters, tasks by number
    tasks,                         \* the tasks of the group, by state
    aborting                       \* the group has cancelled its tasks

analysis == <<pc, failure, args, spec, recording_size, recording_sample_rate,
              downsampling_ratio, recording_slope, boundaries_reference_samples,
              cross_correlation, boundary_candidate_indexes,
              test_signal_start_index, test_signal_end_index, upsampling_ratio,
              edges, artifacts, stderr, stdout>>

harness == <<harness_pc, parallelism, test_cases, throttle, waiters, tasks,
             aborting>>

vars == <<analysis, harness>>

None == "none"

OutputFiles ==
    {"downsampled_slope", "boundaries_signal", "cross_correlation",
     "boundary_candidates", "trimmed_slope", "upsampled_slope", "edges"}

\* the peak ratios of a full run, and those find_edges is explored with
PipelineRatios == {<<1, 2>>}
EdgeRatios == {<<1, 2>>, <<1, 1>>}

Arguments(ratios) ==
    [boundaries_signal_frames : 1..MaxFrames,
     min_edge_separation_seconds : {<<1, 2>>, <<3, 4>>},
     boundaries_score_threshold_ratio : {<<1, 2>>, <<1, 1>>},
     timestamp_resolution_seconds : {<<1, 2>>, <<1, 3>>},
     minimum_negative_slope_peak_height_ratio : ratios,
     minimum_positive_slope_peak_height_ratio : ratios,
     minimum_negative_slope_peak_prominence_ratio : ratios,
     minimum_positive_slope_peak_prominence_ratio : ratios,
     output_files : {{}, OutputFiles}]

SpecFiles == [fps : {[num |-> 1, den |-> 1], [num |-> 3, den |-> 2]}]
SampleRates == {1, 2, 3}

\* _run_tests has not been entered; the numbers are not read before line 69
\* has given them their values
HarnessNotStarted ==
    /\ harness_pc = "start"
    /\ parallelism = 0
    /\ test_cases = 0
    /\ throttle = 0
    /\ waiters = <<>>
    /\ tasks = <<>>
    /\ aborting = FALSE

Init ==
    /\ pc = "start"
    /\ failure = ""
    /\ args = None
    /\ spec = None
    /\ recording_size = -1
    /\ recording_sample_rate = None
    /\ downsampling_ratio = None
    /\ recording_slope = <<>>
    /\ boundaries_reference_samples = <<>>
    /\ cross_correlation = <<>>
    /\ boundary_candidate_indexes = <<>>
    /\ test_signal_start_index = None
    /\ test_signal_end_index = None
    /\ upsampling_ratio = None
    /\ edges = <<>>
    /\ artifacts = {}
    /\ stderr = <<>>
    /\ stdout = <<>>
    /\ HarnessNotStarted

\* maybe_write_wavfile(file, samples): writes only when the flag gave a file
maybe_write_wavfile(written, file) ==
    IF file \in args.output_files THEN written \cup {file} ELSE written

\* an uncaught exception (a failed assert, a ValueError of scipy) ends the run
Abort(reason) ==
    /\ pc' = "failed"
    /\ failure' = reason

Logged(msg) == \E i \in DOMAIN stderr : stderr[i].msg = msg
LogOf(msg) == stderr[CHOOSE i \in DOMAIN stderr : stderr[i].msg = msg]

(* --------------------------- the pipeline ------------------------------ *)

\* line 180: args = parse_arguments().  argparse opens every file it is
\* given; nothing is read or written yet.
ParseArguments ==
    /\ pc = "start"
    /\ \E a \in Arguments(PipelineRatios) : args' = a
    /\ pc' = "parsed"
    /\ UNCHANGED <<failure, spec, recording_size, recording_sample_rate,
                   downsampling_ratio, recording_slope,
                   boundaries_reference_samples, cross_correlation,
                   boundary_candidate_indexes, test_signal_start_index,
                   test_signal_end_index, upsampling_ratio, edges, artifacts,
                   stderr, stdout>>
    /\ UNCHANGED harness

\* the assert of lines 181-183 left out
AnyFrameCount(frames) == TRUE

\* the condition of the assert of lines 181-183
OddFrameCount(frames) == frames % 2 # 0

\* lines 181-183: the number of boundaries frames must be odd
CheckBoundariesSignalFrames ==
    /\ pc = "parsed"
    /\ IF OddFrameCount(args.boundaries_signal_frames)
       THEN pc' = "checked" /\ UNCHANGED failure
       ELSE Abort("boundaries_signal_frames")
    /\ UNCHANGED <<args, spec, recording_size, recording_sample_rate,
                   downsampling_ratio, recording_slope,
                   boundaries_reference_samples, cross_correlation,
                   boundary_candidate_indexes, test_signal_start_index,
                   test_signal_end_index, upsampling_ratio, edges, artifacts,
                   stderr, stdout>>
    /\ UNCHANGED harness

\* lines 184-193: the spec file is parsed, or json.load raises
LoadSpec ==
    /\ pc = "checked"
    /\ \/ /\ \E f \in SpecFiles : spec' = f
          /\ stderr' = Append(stderr, [msg |-> "loaded_spec"])
          /\ pc' = "spec_loaded"
          /\ UNCHANGED failure
       \/ /\ Abort("spec_file")
          /\ UNCHANGED <<spec, stderr>>
    /\ UNCHANGED <<args, recording_size, recording_sample_rate,
                   downsampling_ratio, recording_slope,
                   boundaries_reference_samples, cross_correlation,
                   boundary_candidate_indexes, test_signal_start_index,
                   test_signal_end_index, upsampling_ratio, edges, artifacts,
                   stdout>>
    /\ UNCHANGED harness

\* lines 195-202: the recording is read, or scipy.io.wavfile.read raises
LoadRecording ==
    /\ pc = "spec_loaded"
    /\ \/ /\ \E rate \in SampleRates, size \in 1..MaxSamples :
                /\ recording_sample_rate' = FromInt(rate)
                /\ recording_size' = size
                /\ stderr' = Append(stderr, [msg |-> "loaded_recording",
                                             size |-> size,
                                             rate |-> FromInt(rate)])
          /\ pc' = "recording_loaded"
          /\ UNCHANGED failure
       \/ /\ Abort("recording_file")
          /\ UNCHANGED <<recording_size, recording_sample_rate, stderr>>
    /\ UNCHANGED <<args, spec, downsampling_ratio, recording_slope,
                   boundaries_reference_samples, cross_correlation,
                   boundary_candidate_indexes, test_signal_start_index,
                   test_signal_end_index, upsampling_ratio, edges, artifacts,
                   stdout>>
    /\ UNCHANGED harness

\* lines 221-223: np.floor(recording_sample_rate / (1 / min_edge_separation))
DownsamplingRatio(sample_rate, min_edge_separation_seconds) ==
    RFloor(RDiv(sample_rate, RDiv(FromInt(1), min_edge_separation_seconds)))

\* lines 221-235: the recording is decimated and differentiated in one pass.
\* A ratio of 0 makes the rate inf and the kernel design raise.
Downsample ==
    /\ pc = "recording_loaded"
    /\ LET ratio == DownsamplingRatio(recording_sample_rate,
                                      args.min_edge_separation_seconds)
           rate == IF ratio = 0 THEN Infinity
                   ELSE RDiv(recording_sample_rate, FromInt(ratio))
       IN  /\ downsampling_ratio' = ratio
           /\ recording_sample_rate' = rate
           /\ stderr' = Append(stderr, [msg |-> "downsampling",
                                        ratio |-> ratio, rate |-> rate])
           /\ IF ratio = 0
              THEN /\ Abort("downsampling_ratio")
                   /\ UNCHANGED <<recording_slope, artifacts>>
              ELSE /\ \E recording_samples \in [1..recording_size -> SampleValues] :
                        recording_slope' \in resample_poly(recording_samples, 1, ratio)
                   /\ artifacts' = maybe_write_wavfile(artifacts, "downsampled_slope")
                   /\ pc' = "downsampled"
                   /\ UNCHANGED failure
    /\ UNCHANGED <<args, spec, recording_size, boundaries_reference_samples,
                   cross_correlation, boundary_candidate_indexes,
                   test_signal_start_index, test_signal_end_index,
                   upsampling_ratio, edges, stdout>>
    /\ UNCHANGED harness

\* lines 237-264: the boundaries reference is generated and correlated
\* against the slope; np.max of an empty correlation raises
CrossCorrelate ==
    /\ pc = "downsampled"
    /\ LET reference == generate_boundaries_reference_samples(
                            args.boundaries_signal_frames, spec.fps,
                            recording_sample_rate)
       IN  /\ boundaries_reference_samples' = reference
           /\ IF reference = <<>> \/ recording_slope = <<>>
              THEN /\ Abort("cross_correlation")
                   /\ artifacts' = maybe_write_wavfile(artifacts, "boundaries_signal")
                   /\ UNCHANGED cross_correlation
              ELSE /\ cross_correlation' = correlate_valid(recording_slope, reference)
                   /\ artifacts' = maybe_write_wavfile(
                                     maybe_write_wavfile(
                                       maybe_write_wavfile(artifacts, "boundaries_signal"),
                                       "cross_correlation"),
                                     "boundary_candidates")
                   /\ pc' = "correlated"
                   /\ UNCHANGED failure
    /\ UNCHANGED <<args, spec, recording_size, recording_sample_rate,
                   downsampling_ratio, recording_slope,
                   boundary_candidate_indexes, test_signal_start_index,
                   test_signal_end_index, upsampling_ratio, edges, stderr,
                   stdout>>
    /\ UNCHANGED harness

\* lines 256-260 and 266: the offsets whose absolute correlation reaches
\* threshold_ratio times the largest absolute correlation
BoundaryCandidates(correlation, threshold_ratio) ==
    LET abs_cross_correlation == [k \in DOMAIN correlation |-> Abs(correlation[k])]
        max == Max(Range(abs_cross_correlation))
    IN  {k - 1 : k \in {j \in DOMAIN correlation :
            RLeq(RMul(FromInt(max), threshold_ratio),
                 FromInt(abs_cross_correlation[j]))}}

\* the condition of the assert of line 267
EnoughCandidates(size) == size > 1

\* lines 266-278: the test signal runs from the first candidate to the end
\* of the reference placed at the last one; the slope is cut to it
LocateBoundaries ==
    /\ pc = "correlated"
    /\ LET indexes == Ascending(BoundaryCandidates(
                          cross_correlation, args.boundaries_score_threshold_ratio))
           start == indexes[1]
           end == indexes[Len(indexes)] + Len(boundaries_reference_samples)
       IN  /\ boundary_candidate_indexes' = indexes
           /\ IF EnoughCandidates(Len(indexes))
              THEN /\ test_signal_start_index' = start
                   /\ test_signal_end_index' = end
                   /\ stderr' = Append(stderr, [msg |-> "test_signal",
                                                start |-> start, end |-> end])
                   /\ recording_slope' = Slice(recording_slope, start, end)
                   /\ artifacts' = maybe_write_wavfile(artifacts, "trimmed_slope")
                   /\ pc' = "trimmed"
                   /\ UNCHANGED failure
              ELSE /\ Abort("boundary_candidates")
                   /\ UNCHANGED <<test_signal_start_index, test_signal_end_index,
                                  stderr, recording_slope, artifacts>>
    /\ UNCHANGED <<args, spec, recording_size, recording_sample_rate,
                   downsampling_ratio, boundaries_reference_samples,
                   cross_correlation, upsampling_ratio, edges, stdout>>
    /\ UNCHANGED harness

\* lines 280-282: np.ceil((1 / timestamp_resolution_seconds) / sample_rate)
UpsamplingRatio(sample_rate, timestamp_resolution_seconds) ==
    RCeil(RDiv(RDiv(FromInt(1), timestamp_resolution_seconds), sample_rate))

\* the index without the scaling of lines 284-285
UnscaledIndex(index, ratio) == index

\* lines 284-285: an index at the downsampled rate, at the upsampled rate
ScaledIndex(index, ratio) == index * ratio

\* lines 280-295: the trimmed slope is upsampled to the timestamp resolution
Upsample ==
    /\ pc = "trimmed"
    /\ LET ratio == UpsamplingRatio(recording_sample_rate,
                                    args.timestamp_resolution_seconds)
           rate == RMul(recording_sample_rate, FromInt(ratio))
       IN  /\ ratio = 1 \/ Len(recording_slope) * ratio <= MaxUpsampled
           /\ upsampling_ratio' = ratio
           /\ recording_sample_rate' = rate
           /\ test_signal_start_index' = ScaledIndex(test_signal_start_index, ratio)
           /\ test_signal_end_index' = ScaledIndex(test_signal_end_index, ratio)
           /\ stderr' = Append(stderr, [msg |-> "upsampling",
                                        ratio |-> ratio, rate |-> rate])
           /\ recording_slope' \in resample_poly(recording_slope, ratio, 1)
    /\ artifacts' = maybe_write_wavfile(artifacts, "upsampled_slope")
    /\ pc' = "upsampled"
    /\ UNCHANGED <<failure, args, spec, recording_size, downsampling_ratio,
                   boundaries_reference_samples, cross_correlation,
                   boundary_candidate_indexes, edges, stdout>>
    /\ UNCHANGED harness

\* lines 304-318: the thresholds handed to find_edges
FindEdgeParams(slope, sample_rate, a) ==
    LET recording_slope_min == Min(Range(slope))
        recording_slope_max == Max(Range(slope))
        minimum_edge_distance_samples ==
            RFloor(RMul(RMul(a.min_edge_separation_seconds, FromInt(2)),
                        sample_rate))
    IN  [minimum_negative_height |->
            RMul(FromInt(-recording_slope_min),
                 a.minimum_negative_slope_peak_height_ratio),
         minimum_positive_height |->
            RMul(FromInt(recording_slope_max),
                 a.minimum_positive_slope_peak_height_ratio),
         minimum_falling_edge_distance |-> minimum_edge_distance_samples,
         minimum_rising_edge_distance |-> minimum_edge_distance_samples,
         minimum_negative_prominence |->
            RMul(FromInt(-recording_slope_min),
                 a.minimum_negative_slope_peak_prominence_ratio),
         minimum_positive_prominence |->
            RMul(FromInt(recording_slope_max),
                 a.minimum_positive_slope_peak_prominence_ratio)]

\* the assert of line 325 left out
NoEdgeNeeded(size) == TRUE

\* the condition of the assert of line 325
SomeEdge(size) == size > 0

\* lines 297-330: the edges are the peaks of the slope and of its negation.
\* min() of an empty slope raises, and so does find_peaks on a distance < 1.
FindEdges ==
    /\ pc = "upsampled"
    /\ IF recording_slope = <<>>
       THEN /\ Abort("recording_slope")
            /\ UNCHANGED <<edges, artifacts, stderr>>
       ELSE LET find_edge_params ==
                    FindEdgeParams(recording_slope, recording_sample_rate, args)
                range == [msg |-> "slope_range",
                          min |-> Min(Range(recording_slope)),
                          max |-> Max(Range(recording_slope))]
            IN  IF find_edge_params.minimum_falling_edge_distance < 1
                THEN /\ Abort("find_peaks")
                     /\ stderr' = Append(stderr, range)
                     /\ UNCHANGED <<edges, artifacts>>
                ELSE \E found \in find_edges(recording_slope, find_edge_params) :
                        /\ edges' = found
                        /\ stderr' = stderr \o
                              <<range, [msg |-> "detected", size |-> Len(found)]>>
                        /\ IF SomeEdge(Len(found))
                           THEN /\ artifacts' = maybe_write_wavfile(artifacts, "edges")
                                /\ pc' = "edges_found"
                                /\ UNCHANGED failure
                           ELSE /\ Abort("edges")
                                /\ UNCHANGED artifacts
    /\ UNCHANGED <<args, spec, recording_size, recording_sample_rate,
                   downsampling_ratio, recording_slope,
                   boundaries_reference_samples, cross_correlation,
                   boundary_candidate_indexes, test_signal_start_index,
                   test_signal_end_index, upsampling_ratio, stdout>>
    /\ UNCHANGED harness

\* the Series without the inversion of line 345
NotInverted(series) == series

\* line 345: ~edges
Inverted(series) ==
    [i \in DOMAIN series |-> [series[i] EXCEPT !.frame = ~series[i].frame]]

\* the comparison of line 334 left out
NeverAmbiguous(first_edge, last_edge) == FALSE

\* line 334: the first and the last edge have the same direction
Ambiguous(first_edge, last_edge) == first_edge = last_edge

\* line 344 with the other direction, and with none
InvertWhenRising(first_edge) == first_edge

AlwaysInvert(first_edge) == TRUE

\* line 344: the bits are inverted when the first edge is a falling one
ShouldInvert(first_edge) == ~first_edge

\* lines 332-345 as a function of the Edge Set
PolarityResolver(series) ==
    LET first_edge == series[1].frame
        last_edge == series[Len(series)].frame
    IN  IF Ambiguous(first_edge, last_edge) THEN series
        ELSE IF ShouldInvert(first_edge) THEN Inverted(series)
        ELSE series

\* lines 332-345: the direction of the first and last edges tells which
\* slope sign is a transition to white
ResolvePolarity ==
    /\ pc = "edges_found"
    /\ LET first_edge == edges[1].frame
           last_edge == edges[Len(edges)].frame
       IN  stderr' = Append(stderr,
              IF Ambiguous(first_edge, last_edge)
              THEN [msg |-> "warning", first_edge |-> first_edge,
                    last_edge |-> last_edge]
              ELSE [msg |-> "deduced", first_edge |-> first_edge,
                    last_edge |-> last_edge])
    /\ edges' = PolarityResolver(edges)
    /\ pc' = "resolved"
    /\ UNCHANGED <<failure, args, spec, recording_size, recording_sample_rate,
                   downsampling_ratio, recording_slope,
                   boundaries_reference_samples, cross_correlation,
                   boundary_candidate_indexes, test_signal_start_index,
                   test_signal_end_index, upsampling_ratio, artifacts, stdout>>
    /\ UNCHANGED harness

\* line 347: (edges.index + test_signal_start_index) / recording_sample_rate
Timestamp(offset, start_index, sample_rate) ==
    RDiv(FromInt(offset + start_index), sample_rate)

\* lines 347-348: the offsets become timestamps and the table goes to stdout
WriteOutput ==
    /\ pc = "resolved"
    /\ edges' = [i \in DOMAIN edges |->
                    [offset |-> Timestamp(edges[i].offset, test_signal_start_index,
                                          recording_sample_rate),
                     frame |-> edges[i].frame]]
    /\ stdout' = [i \in DOMAIN edges |->
                    [recording_timestamp_seconds |->
                        Timestamp(edges[i].offset, test_signal_start_index,
                                  recording_sample_rate),
                     frame |-> edges[i].frame]]
    /\ pc' = "done"
    /\ UNCHANGED <<failure, args, spec, recording_size, recording_sample_rate,
                   downsampling_ratio, recording_slope,
                   boundaries_reference_samples, cross_correlation,
                   boundary_candidate_indexes, test_signal_start_index,
                   test_signal_end_index, upsampling_ratio, artifacts, stderr>>
    /\ UNCHANGED harness

Next ==
    \/ ParseArguments
    \/ CheckBoundariesSignalFrames
    \/ LoadSpec
    \/ LoadRecording
    \/ Downsample
    \/ CrossCorrelate
    \/ LocateBoundaries
    \/ Upsample
    \/ FindEdges
    \/ ResolvePolarity
    \/ WriteOutput

Spec == Init /\ [][Next]_vars

(* ------------------- find_edges on any upsampled slope ----------------- *)

\* the values of the slopes find_edges is explored on
EdgeValues == {-1, 1, 2}

\* Line 297 is reached with an upsampled slope: any samples, at a rate that
\* makes the minimum edge distance 2 or 3 samples; the diagnostics printed
\* up to there are left out.
InitEdges ==
    /\ pc = "upsampled"
    /\ failure = ""
    /\ args \in {a \in Arguments(EdgeRatios) :
                    /\ a.boundaries_signal_frames = 1
                    /\ a.min_edge_separation_seconds = <<1, 2>>
                    /\ a.boundaries_score_threshold_ratio = <<1, 2>>
                    /\ a.timestamp_resolution_seconds = <<1, 2>>
                    /\ a.output_files = {}}
    /\ spec \in {f \in SpecFiles : f.fps.num = 1}
    /\ recording_size = MaxSlope
    /\ recording_sample_rate \in {FromInt(2), FromInt(3)}
    /\ downsampling_ratio = 1
    /\ recording_slope \in SeqsUpTo(EdgeValues, 1, MaxSlope)
    /\ boundaries_reference_samples = <<-1>>
    /\ cross_correlation = <<>>
    /\ boundary_candidate_indexes = <<>>
    /\ test_signal_start_index \in {0, 1}
    /\ test_signal_end_index = test_signal_start_index + Len(recording_slope)
    /\ upsampling_ratio = 1
    /\ edges = <<>>
    /\ artifacts = {}
    /\ stderr = <<>>
    /\ stdout = <<>>
    /\ HarnessNotStarted

NextEdges ==
    \/ FindEdges
    \/ ResolvePolarity
    \/ WriteOutput

SpecEdges == InitEdges /\ [][NextEdges]_vars

(* ---------------------------- the test harness -------------------------- *)

\* the most test cases selected, and the largest --parallelism
MaxTestCases == 3
MaxParallelism == 2

\* asyncio.Semaphore._wake_up_next after the tasks became t and the value
\* became value: the first waiter whose future is still pending gets the
\* slot.  The futures of the waiters are all cancelled once the group aborts.
WakeUpNext(t, value) ==
    LET pending == {k \in DOMAIN waiters : t[waiters[k]] = "waiting"}
    IN  IF aborting \/ pending = {}
        THEN [tasks |-> t, value |-> value]
        ELSE [tasks |-> [t EXCEPT ![waiters[Min(pending)]] = "woken"],
              value |-> value - 1]

\* asyncio.Semaphore.release, called as `async with throttle` is left
Release(t) == WakeUpNext(t, throttle + 1)

\* a semaphore that is never taken for locked
NeverLocked == FALSE

\* asyncio.Semaphore.locked: no slot is free, or a waiter whose future is
\* not cancelled is queued
Locked ==
    \/ throttle = 0
    \/ \E k \in DOMAIN waiters :
          ~(aborting /\ tasks[waiters[k]] = "waiting")

Without(q, i) == SelectSeq(q, LAMBDA j : j # i)

\* lines 66-69: the arguments are parsed and the semaphore is made;
\* asyncio.Semaphore raises ValueError on a negative value
CreateThrottle ==
    /\ harness_pc = "start"
    /\ \E p \in -1..MaxParallelism, n \in 0..MaxTestCases :
          /\ parallelism' = p
          /\ test_cases' = n
          /\ IF p < 0
             THEN harness_pc' = "failed" /\ UNCHANGED throttle
             ELSE harness_pc' = "creating" /\ throttle' = p
    /\ UNCHANGED <<waiters, tasks, aborting>>
    /\ UNCHANGED analysis

\* lines 76-84: one turn of the loop.  _TestCase imports the module of the
\* case, which may raise; the exception leaves the `async with` of the group,
\* whose __aexit__ cancels the tasks made so far.  Nothing is awaited in the
\* loop, so no task runs before it has ended.
CreateTask ==
    /\ harness_pc = "creating"
    /\ Len(tasks) < test_cases
    /\ \/ /\ tasks' = Append(tasks, "created")
          /\ UNCHANGED <<harness_pc, aborting>>
       \/ /\ aborting' = TRUE
          /\ harness_pc' = "joining"
          /\ UNCHANGED tasks
    /\ UNCHANGED <<parallelism, test_cases, throttle, waiters>>
    /\ UNCHANGED analysis

\* line 75, leaving the block: TaskGroup.__aexit__ waits for the tasks
JoinTaskGroup ==
    /\ harness_pc = "creating"
    /\ Len(tasks) = test_cases
    /\ harness_pc' = "joining"
    /\ UNCHANGED <<parallelism, test_cases, throttle, waiters, tasks, aborting>>
    /\ UNCHANGED analysis

\* lines 71-73, the first step of run(test_case): `async with throttle`
\* takes a slot and the body of the test case begins, or the task queues
StartTask(i) ==
    /\ harness_pc = "joining"
    /\ ~aborting
    /\ tasks[i] = "created"
    /\ IF Locked
       THEN /\ tasks' = [tasks EXCEPT ![i] = "waiting"]
            /\ waiters' = Append(waiters, i)
            /\ UNCHANGED throttle
       ELSE /\ tasks' = [tasks EXCEPT ![i] = "running"]
            /\ throttle' = throttle - 1
            /\ UNCHANGED waiters
    /\ UNCHANGED <<harness_pc, parallelism, test_cases, aborting>>
    /\ UNCHANGED analysis

\* line 72, acquire resumed with the slot _wake_up_next gave it: the waiter
\* leaves the queue, wakes the next one if a slot is free, and line 73 runs
ResumeTask(i) ==
    /\ harness_pc = "joining"
    /\ ~aborting
    /\ tasks[i] = "woken"
    /\ waiters' = Without(waiters, i)
    /\ LET t == [tasks EXCEPT ![i] = "running"]
           woken == IF throttle > 0 THEN WakeUpNext(t, throttle)
                    ELSE [tasks |-> t, value |-> throttle]
       IN  tasks' = woken.tasks /\ throttle' = woken.value
    /\ UNCHANGED <<harness_pc, parallelism, test_cases, aborting>>
    /\ UNCHANGED analysis

\* lines 40-42 and 72-73: videojitter_test returns and the slot is released
FinishTest(i) ==
    /\ harness_pc = "joining"
    /\ ~aborting
    /\ tasks[i] = "running"
    /\ LET released == Release([tasks EXCEPT ![i] = "passed"])
       IN  tasks' = released.tasks /\ throttle' = released.value
    /\ UNCHANGED <<harness_pc, parallelism, test_cases, waiters, aborting>>
    /\ UNCHANGED analysis

\* lines 43-44 and 72-73: videojitter_test raises, run raises RuntimeError,
\* the slot is released and the task ends with the exception
FailTest(i) ==
    /\ harness_pc = "joining"
    /\ ~aborting
    /\ tasks[i] = "running"
    /\ LET released == Release([tasks EXCEPT ![i] = "failed"])
       IN  tasks' = released.tasks /\ throttle' = released.value
    /\ UNCHANGED <<harness_pc, parallelism, test_cases, waiters, aborting>>
    /\ UNCHANGED analysis

\* line 75: TaskGroup._on_task_done of a failed task cancels every task of
\* the group that has not ended, and with it the future each waiter awaits
AbortTaskGroup ==
    /\ harness_pc = "joining"
    /\ ~aborting
    /\ \E i \in DOMAIN tasks : tasks[i] = "failed"
    /\ aborting' = TRUE
    /\ UNCHANGED <<harness_pc, parallelism, test_cases, throttle, waiters,
                   tasks>>
    /\ UNCHANGED analysis

\* the next step of a cancelled task raises CancelledError: a task that
\* never ran ends, a waiter leaves the queue, and a task holding a slot
\* (given by _wake_up_next, or taken at line 72) releases it
CancelTask(i) ==
    /\ harness_pc = "joining"
    /\ aborting
    /\ tasks[i] \in {"created", "waiting", "woken", "running"}
    /\ waiters' = Without(waiters, i)
    /\ LET t == [tasks EXCEPT ![i] = "cancelled"]
           released == IF tasks[i] \in {"woken", "running"} THEN Release(t)
                       ELSE [tasks |-> t, value |-> throttle]
       IN  tasks' = released.tasks /\ throttle' = released.value
    /\ UNCHANGED <<harness_pc, parallelism, test_cases, aborting>>
    /\ UNCHANGED analysis

\* line 75: every task has ended, and __aexit__ returns or raises
ExitTaskGroup ==
    /\ harness_pc = "joining"
    /\ \A i \in DOMAIN tasks : tasks[i] \in {"passed", "failed", "cancelled"}
    /\ (\E i \in DOMAIN tasks : tasks[i] = "failed") => aborting
    /\ harness_pc' = IF aborting THEN "failed" ELSE "done"
    /\ UNCHANGED <<parallelism, test_cases, throttle, waiters, tasks, aborting>>
    /\ UNCHANGED analysis

NextTests ==
    \/ CreateThrottle
    \/ CreateTask
    \/ JoinTaskGroup
    \/ \E i \in DOMAIN tasks : StartTask(i)
    \/ \E i \in DOMAIN tasks : ResumeTask(i)
    \/ \E i \in DOMAIN tasks : FinishTest(i)
    \/ \E i \in DOMAIN tasks : FailTest(i)
    \/ AbortTaskGroup
    \/ \E i \in DOMAIN tasks : CancelTask(i)
    \/ ExitTaskGroup

\* The event loop runs every callback that is ready, and the body of a test
\* case is taken to end: the harness never stops while a step is possible.
SpecTests == Init /\ [][NextTests]_vars /\ WF_vars(NextTests)

(* ------------------------------ claims --------------------------------- *)

AfterFrameCheck == pc \notin {"start", "parsed", "failed"}
AfterBoundaries == pc \in {"trimmed", "upsampled", "edges_found", "resolved", "done"}
AfterEdges == pc \in {"edges_found", "resolved", "done"}

\* C1: a run that meets a fatal condition (an even boundaries_signal_frames,
\* fewer than two boundary candidates, no edge) ends failed, a failed run has
\* written no row to stdout, and rows are on stdout only once the run is done,
\* after the three checks have passed.
C1_FatalRunsWriteNoRows ==
    /\ pc = "failed" => failure # "" /\ stdout = <<>>
    /\ AfterFrameCheck => args.boundaries_signal_frames % 2 # 0
    /\ AfterBoundaries => Len(boundary_candidate_indexes) >= 2
    /\ AfterEdges => Len(edges) >= 1
    /\ stdout # <<>> =>
          /\ pc = "done"
          /\ args.boundaries_signal_frames % 2 # 0
          /\ Len(boundary_candidate_indexes) >= 2
          /\ Len(stdout) >= 1

\* C1 witness: a run that found no edge has failed with debug files already
\* written and nothing on stdout.
C1_Witness ==
    /\ pc = "failed"
    /\ failure = "edges"
    /\ Logged("detected")
    /\ "upsampled_slope" \in artifacts
    /\ stdout = <<>>

\* C2: whatever the other arguments, an even boundaries_signal_frames fails
\* the run at the first check: the spec file is not parsed, the recording is
\* not read, no debug file is written and nothing is printed.
C2_EvenFramesRejectedFirst ==
    (pc \notin {"start", "parsed"} /\ args.boundaries_signal_frames % 2 = 0) =>
        /\ pc = "failed"
        /\ failure = "boundaries_signal_frames"
        /\ spec = None
        /\ recording_size = -1
        /\ artifacts = {}
        /\ stderr = <<>>
        /\ stdout = <<>>

\* C2 witness: a run asked for every debug file is rejected for its even
\* frame count with none of them written.
C2_Witness ==
    /\ pc = "failed"
    /\ failure = "boundaries_signal_frames"
    /\ args.output_files = OutputFiles
    /\ args.boundaries_score_threshold_ratio = <<1, 1>>
    /\ artifacts = {}

\* the step of the Polarity Resolver on edges whose ends differ
ResolvingStep ==
    /\ pc = "edges_found"
    /\ pc' = "resolved"
    /\ edges[1].frame # edges[Len(edges)].frame

\* C3 as stated: when the first and last edges differ, a falling first edge
\* leaves the bits as detected and a rising first edge inverts every bit.
C3_InvertedWhenFirstRising ==
    [][ResolvingStep =>
          /\ Len(edges') = Len(edges)
          /\ \A i \in DOMAIN edges :
                /\ edges'[i].offset = edges[i].offset
                /\ edges'[i].frame =
                      IF edges[1].frame THEN ~edges[i].frame ELSE edges[i].frame]_vars

\* C3 amended: when the first and last edges differ, a rising first edge
\* leaves the bits as detected and a falling first edge inverts every bit;
\* no edge is added, removed or moved.
C3_InvertedWhenFirstFalling ==
    [][ResolvingStep =>
          /\ Len(edges') = Len(edges)
          /\ \A i \in DOMAIN edges :
                /\ edges'[i].offset = edges[i].offset
                /\ edges'[i].frame =
                      IF edges[1].frame THEN edges[i].frame ELSE ~edges[i].frame]_vars

\* C3 witness: edges detected falling first and rising last have been
\* resolved: they now start rising and end falling.
C3_Witness ==
    /\ pc = "resolved"
    /\ Logged("deduced")
    /\ ~LogOf("deduced").first_edge
    /\ Len(edges) >= 2
    /\ edges[1].frame
    /\ ~edges[Len(edges)].frame

\* C4: whenever the polarity is resolved, the first output row has
\* frame = true (a transition to white) and the last has frame = false.
C4_TrueIsTransitionToWhite ==
    (pc = "done" /\ Logged("deduced")) =>
        /\ stdout[1].frame
        /\ ~stdout[Len(stdout)].frame
        /\ Len(stdout) = LogOf("detected").size

\* C4 witness: a finished run whose edges were detected falling first and
\* rising last.
C4_Witness ==
    /\ pc = "done"
    /\ Logged("deduced")
    /\ ~LogOf("deduced").first_edge
    /\ LogOf("deduced").last_edge
    /\ Len(stdout) >= 2

\* C5: when the first and last detected edges have the same polarity the run
\* goes on: a warning is printed, no bit is modified, and stdout gets one row
\* per detected edge with the detected booleans.
C5_AmbiguousPolarityKeepsBits ==
    [][/\ (pc = "edges_found" /\ edges[1].frame = edges[Len(edges)].frame) =>
             /\ pc' = "resolved"
             /\ failure' = ""
             /\ edges' = edges
             /\ stderr'[Len(stderr')].msg = "warning"
       /\ (pc = "resolved" /\ Logged("warning")) =>
             /\ pc' = "done"
             /\ failure' = ""
             /\ Len(stdout') = Len(edges)
             /\ Len(stdout') = LogOf("detected").size
             /\ \A i \in DOMAIN edges : stdout'[i].frame = edges[i].frame]_vars

\* C5 witness: a finished run that warned, with three rows rising, falling,
\* rising.
C5_Witness ==
    /\ pc = "done"
    /\ Logged("warning")
    /\ Len(stdout) = 3
    /\ stdout[1].frame
    /\ ~stdout[2].frame
    /\ stdout[3].frame

\* C6 as stated: the resolver leaves an Edge Set whose first edge is falling
\* (and whose last is rising) unchanged.
C6_FallingFirstIsResolved ==
    [][(pc = "edges_found" /\ pc' = "resolved"
        /\ ~edges[1].frame /\ edges[Len(edges)].frame) => edges' = edges]_vars

\* C6 amended: a resolved Edge Set has its first edge rising, and running the
\* resolver on the result of the resolver changes nothing.
C6_ResolverIdempotent ==
    pc = "resolved" =>
        /\ PolarityResolver(edges) = edges
        /\ Logged("deduced") => edges[1].frame /\ ~edges[Len(edges)].frame

\* C6 witness: the resolver has inverted an Edge Set and a second run of it
\* leaves the result alone.
C6_Witness ==
    /\ pc = "resolved"
    /\ Logged("deduced")
    /\ ~LogOf("deduced").first_edge
    /\ PolarityResolver(edges) = edges
    /\ Inverted(edges) # edges

\* C7: the Edge Set find_edges returns is strictly increasing by offset (no
\* offset is both a rising and a falling edge), and stdout holds one row per
\* edge with strictly ascending timestamps.
C7_EdgesStrictlyAscending ==
    /\ pc \in {"edges_found", "resolved"} =>
          /\ \A i \in 1..(Len(edges) - 1) : edges[i].offset < edges[i + 1].offset
          /\ \A i \in DOMAIN edges : edges[i].offset \in 0..(Len(recording_slope) - 1)
    /\ pc = "done" =>
          /\ Len(stdout) = LogOf("detected").size
          /\ \A i \in 1..(Len(stdout) - 1) :
                RLess(stdout[i].recording_timestamp_seconds,
                      stdout[i + 1].recording_timestamp_seconds)

\* C7 witness: a finished run with three rows, of both directions.
C7_Witness ==
    /\ pc = "done"
    /\ Len(stdout) >= 3
    /\ \E i, j \in DOMAIN stdout : stdout[i].frame /\ ~stdout[j].frame

C10_EdgesMeetHeightAndProminence ==
    pc = "edges_found" =>
        LET slope_min == Min(Range(recording_slope))
            slope_max == Max(Range(recording_slope))
            negated == [i \in DOMAIN recording_slope |-> -recording_slope[i]]
            atleast(value, ratio, reference) == ratio[1] * reference <= value * ratio[2]
        IN  \A i \in DOMAIN edges :
               LET p == edges[i].offset
               IN  IF edges[i].frame
                   THEN /\ atleast(recording_slope[p + 1],
                                   args.minimum_positive_slope_peak_height_ratio,
                                   slope_max)
                        /\ atleast(PeakProminence(recording_slope, p),
                                   args.minimum_positive_slope_peak_prominence_ratio,
                                   slope_max)
                   ELSE /\ atleast(negated[p + 1],
                                   args.minimum_negative_slope_peak_height_ratio,
                                   Abs(slope_min))
                        /\ atleast(PeakProminence(negated, p),
                                   args.minimum_negative_slope_peak_prominence_ratio,
                                   Abs(slope_min))

RunningTests == {i \in DOMAIN tasks : tasks[i] = "running"}
StartedTest(i) ==
    i \in DOMAIN tasks /\ tasks[i] \in {"running", "passed", "failed"}

\* C11: in _run_tests, whatever test cases are selected and however their
\* tasks interleave, the test cases whose videojitter_test body is running
\* are never more than --parallelism; and with a parallelism of 1 or more
\* every selected test case is eventually started, unless a failure has
\* cancelled the task group.
C11_BoundedAndEventuallyStarted ==
    /\ [](RunningTests # {} => Cardinality(RunningTests) <= parallelism)
    /\ \A i \in 1..MaxTestCases :
          (harness_pc = "creating" /\ parallelism >= 1 /\ i <= test_cases)
             ~> (StartedTest(i) \/ aborting)

\* a test case that had to queue for the only slot runs after the first has
\* passed, while the third still queues
C11_Witness ==
    /\ harness_pc = "joining"
    /\ ~aborting
    /\ parallelism >= 1
    /\ Cardinality(RunningTests) = parallelism
    /\ \E i, j, k \in DOMAIN tasks :
          /\ tasks[i] = "passed"
          /\ tasks[j] = "running" /\ i < j
          /\ tasks[k] = "waiting"

====
